---- MODULE Spec2Model ----
(***************************************************************************)
(* A model of src/expense.py: the exchange-rate cache and converter        *)
(* (CurrencyConverter), the per-category budgets (Budget) and the ledger   *)
(* with its tag-based categoriser (User).                                  *)
(*                                                                         *)
(* Python floats are modelled as exact rationals [n, d] in lowest terms    *)
(* with d > 0; strings that the code inspects character by character (tag  *)
(* names, descriptions) are sequences of one-character strings.            *)
(***************************************************************************)
EXTENDS Integers, Sequences, FiniteSets, TLC

VARIABLES
    inst,        \* CurrencyConverter._instance is not None
    rates,       \* CurrencyConverter._rates: code -> rate (units per INR)
    lastUpdate,  \* CurrencyConverter._last_update (NoTime = None)
    cacheFile,   \* the content of exchange_rates.json
    now,         \* datetime.datetime.now(), in hours
    expenses,    \* User.expenses
    budgets,     \* User.budgets: category -> Budget
    tags,        \* User.tags, in dict (insertion) order
    default_currency,  \* User.default_currency
    dataFile,    \* the content of expense_tracker_data.json
    last         \* what the last operation did: its outcome and its output

vars == <<inst, rates, lastUpdate, cacheFile, now, expenses, budgets, tags,
          default_currency, dataFile, last>>

----------------------------------------------------------------------------
(* Bounds of the model.                                                    *)

MaxTime == 26
MaxExpenses == 3
MaxNewTags == 1

----------------------------------------------------------------------------
(* Exact rational arithmetic for the code's float arithmetic.              *)

Abs(x) == IF x < 0 THEN -x ELSE x

RECURSIVE GCD(_, _)
GCD(a, b) == IF b = 0 THEN a ELSE GCD(b, a % b)

Norm(n, d) ==
    LET g == GCD(Abs(n), d)
    IN  [n |-> n \div g, d |-> d \div g]

Q(n, d) == Norm(n, d)
Int2Q(i) == [n |-> i, d |-> 1]
Zero == Int2Q(0)

RAdd(a, b) == Norm(a.n * b.d + b.n * a.d, a.d * b.d)
RSub(a, b) == Norm(a.n * b.d - b.n * a.d, a.d * b.d)
RMul(a, b) == Norm(a.n * b.n, a.d * b.d)
RDiv(a, b) == IF b.n > 0 THEN Norm(a.n * b.d, a.d * b.n)
                         ELSE Norm(-(a.n * b.d), a.d * (-b.n))
RLe(a, b) == a.n * b.d <= b.n * a.d
RLt(a, b) == a.n * b.d < b.n * a.d
RMax(a, b) == IF RLe(a, b) THEN b ELSE a

----------------------------------------------------------------------------
(* Enumerations.                                                           *)

Currency == {"INR", "USD", "EUR", "GBP", "JPY", "CAD", "AUD", "SGD"}

ExpenseCategory ==
    {"FOOD", "TRANSPORTATION", "HOUSING", "ENTERTAINMENT", "UTILITIES",
     "HEALTH", "EDUCATION", "SHOPPING", "INVESTMENT", "TRAVEL", "OTHER"}

NoCategory == "None"

----------------------------------------------------------------------------
(* CurrencyConverter: the rate table, its cache file and the rate source.  *)

NoTime == -1
StaleHours == 12

DefaultRates ==
    [c \in Currency |->
        CASE c = "INR" -> Q(1, 1)
          [] c = "USD" -> Q(12, 1000)
          [] c = "EUR" -> Q(11, 1000)
          [] c = "GBP" -> Q(95, 10000)
          [] c = "JPY" -> Q(178, 100)
          [] c = "CAD" -> Q(16, 1000)
          [] c = "AUD" -> Q(18, 1000)
          [] c = "SGD" -> Q(16, 1000)]

(* Tables the rate source (or an earlier run's cache file) can hold: any   *)
(* JSON object of positive numbers. One lists every code, one does not.    *)
FullTable ==
    [c \in Currency |->
        CASE c = "INR" -> Q(1, 1)
          [] c = "USD" -> Q(1, 80)
          [] c = "EUR" -> Q(1, 100)
          [] c = "GBP" -> Q(1, 100)
          [] c = "JPY" -> Q(2, 1)
          [] c = "CAD" -> Q(1, 50)
          [] c = "AUD" -> Q(1, 50)
          [] c = "SGD" -> Q(1, 50)]

PartialTable == [c \in {"INR", "EUR"} |-> IF c = "INR" THEN Q(1, 1) ELSE Q(1, 100)]

EmptyTable == [c \in {} |-> Zero]

(* What requests.get(...).json()['rates'] yields: a network error or       *)
(* timeout, a body that is not JSON, JSON without 'rates', or a table.     *)
FetchOutcomes ==
    {[kind |-> "error", rates |-> EmptyTable],
     [kind |-> "malformed", rates |-> EmptyTable],
     [kind |-> "norates", rates |-> EmptyTable],
     [kind |-> "ok", rates |-> FullTable],
     [kind |-> "ok", rates |-> PartialTable]}

(* exchange_rates.json: absent, unreadable (not JSON, or not an object),   *)
(* or a JSON object with or without its two keys.                          *)
AbsentFile == [kind |-> "absent", hasRates |-> FALSE, rates |-> EmptyTable,
               hasLast |-> FALSE, last_update |-> NoTime]
UnreadableFile == [kind |-> "unreadable", hasRates |-> FALSE, rates |-> EmptyTable,
                   hasLast |-> FALSE, last_update |-> NoTime]
JsonFile(r, t) == [kind |-> "json", hasRates |-> TRUE, rates |-> r,
                   hasLast |-> TRUE, last_update |-> t]

InitialFiles ==
    {AbsentFile, UnreadableFile, JsonFile(FullTable, 0), JsonFile(PartialTable, 0),
     [JsonFile(FullTable, 0) EXCEPT !.hasLast = FALSE, !.last_update = NoTime],
     [JsonFile(EmptyTable, 0) EXCEPT !.hasRates = FALSE]}

(* save_rates: writes {rates, last_update: now}; open() or dump may raise, *)
(* and then the file keeps its content.                                    *)
SaveRates(r, t, file, saveOk) ==
    IF saveOk THEN [raised |-> FALSE, file |-> JsonFile(r, t)]
              ELSE [raised |-> TRUE, file |-> file]

(* update_rates on converter state cv = [rates, last]: one fetch; the      *)
(* assignments of lines 93-94 are made before save_rates can raise.        *)
UpdateRates(cv, file, fetch, saveOk, t) ==
    IF fetch.kind # "ok"
    THEN [rates |-> cv.rates, last |-> cv.last, file |-> file,
          warned |-> TRUE, fetches |-> 1]
    ELSE LET saved == SaveRates(fetch.rates, t, file, saveOk)
         IN  [rates |-> fetch.rates, last |-> t, file |-> saved.file,
              warned |-> saved.raised, fetches |-> 1]

(* load_rates *)
LoadRates(cv, file, fetch, saveOk, t) ==
    IF file.kind = "absent" THEN UpdateRates(cv, file, fetch, saveOk, t)
    ELSE IF file.kind = "unreadable" THEN UpdateRates(cv, file, fetch, saveOk, t)
    ELSE LET r1 == IF file.hasRates THEN file.rates ELSE cv.rates
         IN  IF ~file.hasLast
             THEN UpdateRates([rates |-> r1, last |-> cv.last], file, fetch, saveOk, t)
             ELSE IF t - file.last_update > StaleHours
                  THEN UpdateRates([rates |-> r1, last |-> file.last_update],
                                   file, fetch, saveOk, t)
                  ELSE [rates |-> r1, last |-> file.last_update, file |-> file,
                        warned |-> FALSE, fetches |-> 0]

(* CurrencyConverter(): the singleton; load_rates runs on first use only.  *)
GetConverter(isInst, cv, file, fetch, saveOk, t) ==
    IF isInst
    THEN [rates |-> cv.rates, last |-> cv.last, file |-> file,
          warned |-> FALSE, fetches |-> 0]
    ELSE LoadRates(cv, file, fetch, saveOk, t)

(* A slip of convert: the table is consulted before from == to is tested.  *)
ConvertLookupFirst(table, amount, from, to) ==
    IF from \notin DOMAIN table \/ to \notin DOMAIN table
    THEN [raised |-> "UnsupportedCurrency", value |-> Zero]
    ELSE IF from = to THEN [raised |-> "none", value |-> amount]
         ELSE [raised |-> "none",
               value |-> RMul(RDiv(amount, table[from]), table[to])]

(* convert *)
Convert(table, amount, from, to) ==
    IF from = to THEN [raised |-> "none", value |-> amount]
    ELSE IF from \notin DOMAIN table \/ to \notin DOMAIN table
         THEN [raised |-> "UnsupportedCurrency", value |-> Zero]
         ELSE IF table[from].n = 0
              THEN [raised |-> "ZeroDivisionError", value |-> Zero]
              ELSE [raised |-> "none",
                    value |-> RMul(RDiv(amount, table[from]), table[to])]

----------------------------------------------------------------------------
(* Budget.                                                                 *)

Hundred == Int2Q(100)

NewBudget(category, monthly_limit, currency, alert_threshold) ==
    [category |-> category, monthly_limit |-> monthly_limit, currency |-> currency,
     current_spending |-> Zero, alert_threshold |-> alert_threshold,
     alerts_triggered |-> FALSE]

PercentageUsed(b) ==
    IF b.monthly_limit.n # 0
    THEN RMul(RDiv(b.current_spending, b.monthly_limit), Hundred)
    ELSE Zero

RemainingBudget(b) == RMax(Zero, RSub(b.monthly_limit, b.current_spending))

(* Two slips of the alert test: no one-shot latch; > for >=.               *)
ShouldAlertNoLatch(b) == RLe(b.alert_threshold, PercentageUsed(b))

ShouldAlertStrict(b) == ~b.alerts_triggered /\ RLt(b.alert_threshold, PercentageUsed(b))

(* The alert test of add_spending, on the budget after the addition.       *)
ShouldAlert(b) == ~b.alerts_triggered /\ RLe(b.alert_threshold, PercentageUsed(b))

AlertEvent(b) ==
    [category |-> b.category, percentage |-> PercentageUsed(b),
     remaining |-> RemainingBudget(b)]

(* A slip of add_spending: the amount is added without conversion.         *)
AddSpendingUnconverted(b, table, amount, expense_currency) ==
    LET b1 == [b EXCEPT !.current_spending = RAdd(b.current_spending, amount)]
    IN  IF ShouldAlert(b1)
        THEN [raised |-> "none", budget |-> [b1 EXCEPT !.alerts_triggered = TRUE],
              alerts |-> <<AlertEvent(b1)>>]
        ELSE [raised |-> "none", budget |-> b1, alerts |-> <<>>]

(* add_spending with the converter's table: the budget afterwards and the  *)
(* alerts printed; a conversion error leaves the budget as it was.         *)
AddSpending(b, table, amount, expense_currency) ==
    LET conv == Convert(table, amount, expense_currency, b.currency)
        b1 == [b EXCEPT !.current_spending = RAdd(b.current_spending, conv.value)]
    IN  IF conv.raised # "none"
        THEN [raised |-> conv.raised, budget |-> b, alerts |-> <<>>]
        ELSE IF ShouldAlert(b1)
             THEN [raised |-> "none",
                   budget |-> [b1 EXCEPT !.alerts_triggered = TRUE],
                   alerts |-> <<AlertEvent(b1)>>]
             ELSE [raised |-> "none", budget |-> b1, alerts |-> <<>>]

----------------------------------------------------------------------------
(* User: the tag registry and the categoriser.                             *)

DefaultTags ==
    << [name |-> <<"g","r","o","c","e","r","i","e","s">>, category |-> "FOOD"],
       [name |-> <<"d","i","n","i","n","g">>, category |-> "FOOD"],
       [name |-> <<"f","u","e","l">>, category |-> "TRANSPORTATION"],
       [name |-> <<"r","e","n","t">>, category |-> "HOUSING"],
       [name |-> <<"m","o","v","i","e">>, category |-> "ENTERTAINMENT"],
       [name |-> <<"e","l","e","c","t","r","i","c","i","t","y">>, category |-> "UTILITIES"],
       [name |-> <<"d","o","c","t","o","r">>, category |-> "HEALTH"],
       [name |-> <<"b","o","o","k","s">>, category |-> "EDUCATION"],
       [name |-> <<"s","h","o","p","p","i","n","g">>, category |-> "SHOPPING"],
       [name |-> <<"m","u","t","u","a","l"," ","f","u","n","d">>, category |-> "INVESTMENT"],
       [name |-> <<"f","l","i","g","h","t">>, category |-> "TRAVEL"] >>

(* str.lower() on the characters the model uses.                           *)
LowerChar(c) ==
    CASE c = "U" -> "u"
      [] c = "R" -> "r"
      [] c = "E" -> "e"
      [] c = "N" -> "n"
      [] c = "T" -> "t"
      [] c = "B" -> "b"
      [] c = "F" -> "f"
      [] c = "L" -> "l"
      [] OTHER -> c

Lower(s) == [i \in DOMAIN s |-> LowerChar(s[i])]

(* sub in s, for Python strings *)
Contains(sub, s) ==
    \E i \in 0..(Len(s) - Len(sub)) : SubSeq(s, i + 1, i + Len(sub)) = sub

MinOf(S) == CHOOSE i \in S : \A j \in S : i <= j

TagIndex(registry, name) == {i \in DOMAIN registry : registry[i].name = name}

(* _categorize_from_tags: None when no tag is a key of the registry.       *)
CategorizeFromTags(registry, tagList) ==
    LET hits == {i \in DOMAIN tagList : TagIndex(registry, tagList[i]) # {}}
    IN  IF hits = {} THEN NoCategory
        ELSE registry[MinOf(TagIndex(registry, tagList[MinOf(hits)]))].category

(* _categorize_from_description: only the description is lower-cased.      *)
CategorizeFromDescription(registry, description) ==
    LET description_lower == Lower(description)
        hits == {i \in DOMAIN registry : Contains(registry[i].name, description_lower)}
    IN  IF hits = {} THEN "OTHER" ELSE registry[MinOf(hits)].category

(* The resolution of add_expense, lines 220-221.                           *)
ResolveCategory(registry, category, tagList, description) ==
    IF category # NoCategory THEN category
    ELSE LET fromTags == CategorizeFromTags(registry, tagList)
         IN  IF fromTags # NoCategory THEN fromTags
             ELSE CategorizeFromDescription(registry, description)

(* self.tags[name] = ExpenseTag(name, category): a dict keeps the place of *)
(* a key it already holds.                                                 *)
PutTag(registry, name, category) ==
    IF TagIndex(registry, name) # {}
    THEN [i \in DOMAIN registry |->
            IF registry[i].name = name
            THEN [name |-> name, category |-> category] ELSE registry[i]]
    ELSE Append(registry, [name |-> name, category |-> category])

----------------------------------------------------------------------------
(* The operations. last records what the operation just taken did: its     *)
(* name and arguments, the exception it raised, whether update_rates printed its         *)
(* "Failed to update" warning, the fetches made, the budget alerts         *)
(* printed, the add_spending calls made, and the value returned.           *)

NoCurrency == "None"
NoDate == <<>>
NoBudgets == [c \in {} |-> NewBudget(c, Zero, "INR", Zero)]

(* datetime.date.today() as (year, month, day) *)
Today(t) == <<2025, 1, 1 + (t \div 24)>>

Outcome(op, args, raised, warned, fetches, alerts, spent, ret) ==
    [op |-> op, args |-> args, raised |-> raised, warned |-> warned, fetches |-> fetches,
     alerts |-> alerts, spent |-> spent, ret |-> ret]

ConverterState == [rates |-> rates, last |-> lastUpdate]

(* CurrencyConverter() *)
Construct(fetch, saveOk) ==
    LET g == GetConverter(inst, ConverterState, cacheFile, fetch, saveOk, now)
    IN  /\ inst' = TRUE
        /\ rates' = g.rates
        /\ lastUpdate' = g.last
        /\ cacheFile' = g.file
        /\ last' = Outcome("construct", <<>>, "none", g.warned, g.fetches, <<>>, <<>>, "None")
        /\ UNCHANGED <<now, expenses, budgets, tags, default_currency, dataFile>>

(* converter.update_rates(), menu choice 6 *)
UpdateRatesOp(fetch, saveOk) ==
    /\ inst
    /\ LET u == UpdateRates(ConverterState, cacheFile, fetch, saveOk, now)
       IN  /\ rates' = u.rates
           /\ lastUpdate' = u.last
           /\ cacheFile' = u.file
           /\ last' = Outcome("update_rates", <<>>, "none", u.warned, u.fetches, <<>>, <<>>, "None")
    /\ UNCHANGED <<inst, now, expenses, budgets, tags, default_currency, dataFile>>

(* converter.convert(amount, from, to) *)
ConvertOp(amount, from, to) ==
    /\ inst
    /\ LET c == Convert(rates, amount, from, to)
       IN  last' = Outcome("convert", [amount |-> amount, from |-> from, to |-> to],
                           c.raised, FALSE, 0, <<>>, <<>>, c.value)
    /\ UNCHANGED <<inst, rates, lastUpdate, cacheFile, now, expenses, budgets, tags,
                   default_currency, dataFile>>

(* The clock advances. *)
Tick(hours) ==
    /\ now + hours <= MaxTime
    /\ now' = now + hours
    /\ last' = Outcome("tick", <<>>, "none", FALSE, 0, <<>>, <<>>, "None")
    /\ UNCHANGED <<inst, rates, lastUpdate, cacheFile, expenses, budgets, tags,
                   default_currency, dataFile>>

(* A slip of set_budget: the limit is changed in place, the spending and   *)
(* the alert flag of the category's budget are kept.                       *)
SetBudgetInPlace(category, monthly_limit, currency, alert_threshold) ==
    LET cur == IF currency = NoCurrency THEN default_currency ELSE currency
        b == IF category \in DOMAIN budgets
             THEN [budgets[category] EXCEPT !.monthly_limit = monthly_limit,
                                            !.currency = cur,
                                            !.alert_threshold = alert_threshold]
             ELSE NewBudget(category, monthly_limit, cur, alert_threshold)
    IN  /\ budgets' = [c \in DOMAIN budgets \cup {category} |->
                          IF c = category THEN b ELSE budgets[c]]
        /\ last' = Outcome("set_budget",
                           [category |-> category, monthly_limit |-> monthly_limit,
                            currency |-> currency, alert_threshold |-> alert_threshold],
                           "none", FALSE, 0, <<>>, <<>>, "None")
        /\ UNCHANGED <<inst, rates, lastUpdate, cacheFile, now, expenses, tags,
                       default_currency, dataFile>>

(* User.set_budget *)
SetBudget(category, monthly_limit, currency, alert_threshold) ==
    LET cur == IF currency = NoCurrency THEN default_currency ELSE currency
        b == NewBudget(category, monthly_limit, cur, alert_threshold)
    IN  /\ budgets' = [c \in DOMAIN budgets \cup {category} |->
                          IF c = category THEN b ELSE budgets[c]]
        /\ last' = Outcome("set_budget",
                           [category |-> category, monthly_limit |-> monthly_limit,
                            currency |-> currency, alert_threshold |-> alert_threshold],
                           "none", FALSE, 0, <<>>, <<>>, "None")
        /\ UNCHANGED <<inst, rates, lastUpdate, cacheFile, now, expenses, tags,
                       default_currency, dataFile>>

(* User.add_tag *)
AddTag(name, category) ==
    /\ Len(PutTag(tags, name, category)) <= Len(DefaultTags) + MaxNewTags
    /\ tags' = PutTag(tags, name, category)
    /\ last' = Outcome("add_tag", [name |-> name, category |-> category],
                     "none", FALSE, 0, <<>>, <<>>, "None")
    /\ UNCHANGED <<inst, rates, lastUpdate, cacheFile, now, expenses, budgets,
                   default_currency, dataFile>>

(* User.add_expense: the record is appended before the budget is told, and *)
(* add_spending obtains the converter itself.                              *)
AddExpense(amount, description, date, category, currency, is_recurring, recurring_period_days, tagList, payment_method, fetch, saveOk) ==
    /\ Len(expenses) < MaxExpenses
    /\ LET date1 == IF date = NoDate THEN Today(now) ELSE date
           cur == IF currency = NoCurrency THEN default_currency ELSE currency
           cat == ResolveCategory(tags, category, tagList, description)
           args == [amount |-> amount, description |-> description, date |-> date,
                    category |-> category, currency |-> currency,
                    tags |-> tagList]
           expense == [amount |-> amount, category |-> cat,
                       description |-> description, date |-> date1,
                       currency |-> cur, is_recurring |-> is_recurring,
                       recurring_period_days |-> recurring_period_days,
                       tags |-> tagList, payment_method |-> payment_method]
       IN  /\ expenses' = Append(expenses, expense)
           /\ IF cat \in DOMAIN budgets
              THEN LET g == GetConverter(inst, ConverterState, cacheFile, fetch,
                                         saveOk, now)
                       sp == AddSpending(budgets[cat], g.rates, amount, cur)
                   IN  /\ inst' = TRUE
                       /\ rates' = g.rates
                       /\ lastUpdate' = g.last
                       /\ cacheFile' = g.file
                       /\ budgets' = [budgets EXCEPT ![cat] = sp.budget]
                       /\ last' = Outcome("add_expense", args, sp.raised, g.warned,
                                          g.fetches, sp.alerts,
                                          <<[category |-> cat, amount |-> amount,
                                             currency |-> cur]>>,
                                          expense)
              ELSE /\ last' = Outcome("add_expense", args, "none", FALSE, 0, <<>>,
                                      <<>>, expense)
                   /\ UNCHANGED <<inst, rates, lastUpdate, cacheFile, budgets>>
    /\ UNCHANGED <<now, tags, default_currency, dataFile>>

----------------------------------------------------------------------------
(* The initial state: no converter yet (the class-level defaults), a new   *)
(* User with the default tags, whatever cache file an earlier run left.    *)

(* expense_tracker_data.json does not exist. *)
NoDataFile == [exists |-> FALSE]

NoOutcome == Outcome("init", <<>>, "none", FALSE, 0, <<>>, <<>>, "None")

InitWith(files, currencies) ==
    /\ inst = FALSE
    /\ rates = DefaultRates
    /\ lastUpdate = NoTime
    /\ cacheFile \in files
    /\ now = 0
    /\ expenses = <<>>
    /\ budgets = NoBudgets
    /\ tags = DefaultTags
    /\ default_currency \in currencies
    /\ dataFile = NoDataFile
    /\ last = NoOutcome

(* The inputs the operations are tried on.                                 *)
ExpenseInputs ==
    {[amount |-> Int2Q(799), currency |-> NoCurrency, category |-> "FOOD"],
     [amount |-> Int2Q(1), currency |-> NoCurrency, category |-> "FOOD"],
     [amount |-> Int2Q(700), currency |-> NoCurrency, category |-> "FOOD"],
     [amount |-> Int2Q(-5), currency |-> NoCurrency, category |-> "FOOD"],
     [amount |-> Int2Q(10), currency |-> "EUR", category |-> "FOOD"],
     [amount |-> Int2Q(1), currency |-> NoCurrency, category |-> "HOUSING"]}

BudgetInputs ==
    {[category |-> "FOOD", monthly_limit |-> Int2Q(1000), currency |-> NoCurrency,
      alert_threshold |-> Int2Q(80)],
     [category |-> "HOUSING", monthly_limit |-> Int2Q(1000), currency |-> "USD",
      alert_threshold |-> Int2Q(80)],
     [category |-> "HOUSING", monthly_limit |-> Int2Q(0), currency |-> NoCurrency,
      alert_threshold |-> Int2Q(80)],
     [category |-> "HOUSING", monthly_limit |-> Int2Q(-100), currency |-> NoCurrency,
      alert_threshold |-> Int2Q(0)]}

LedgerFetches ==
    {[kind |-> "error", rates |-> EmptyTable], [kind |-> "ok", rates |-> PartialTable]}

TickSteps == {StaleHours, StaleHours + 1}

Rent == <<"r","e","n","t">>
Fuel == <<"f","u","e","l">>

(* The ledger and its budgets; the first add_spending builds the           *)
(* converter, whose fetch fails or yields a table without USD.             *)
Init == InitWith({AbsentFile}, {"INR"})

Next ==
    \/ \E f \in LedgerFetches : UpdateRatesOp(f, TRUE)
    \/ \E b \in BudgetInputs :
          SetBudget(b.category, b.monthly_limit, b.currency, b.alert_threshold)
    \/ \E e \in ExpenseInputs, f \in LedgerFetches :
          AddExpense(e.amount, Fuel, NoDate, e.category, e.currency, FALSE, 0, <<>>,
                     "Cash", f, TRUE)

Spec == Init /\ [][Next]_vars

----------------------------------------------------------------------------
(* Properties of the budgets and the ledger, checked under Spec.           *)

(* The step installs a new Budget for category c. *)
Replaces(o, c) == o.op = "set_budget" /\ o.args.category = c

AlertsFor(o, c) == {i \in DOMAIN o.alerts : o.alerts[i].category = c}

(* The step made a call of add_spending on c's budget that returned. *)
Spends(o, c) ==
    /\ o.op = "add_expense"
    /\ o.raised = "none"
    /\ \E i \in DOMAIN o.spent : o.spent[i].category = c

(* C1: a Budget instance emits at most one alert. Unless set_budget        *)
(* replaces it, a budget stays, once alerts_triggered it stays so and no   *)
(* step prints an alert for it; and a step prints an alert for a category  *)
(* at most once, only for a budget that was not yet alerts_triggered and   *)
(* is afterwards.                                                          *)
C1_AlertAtMostOnce ==
    [][\A c \in ExpenseCategory :
          /\ (c \in DOMAIN budgets /\ ~Replaces(last', c)) =>
                /\ c \in DOMAIN budgets'
                /\ budgets[c].alerts_triggered =>
                      (budgets'[c].alerts_triggered /\ AlertsFor(last', c) = {})
          /\ Cardinality(AlertsFor(last', c)) <= 1
          /\ AlertsFor(last', c) # {} =>
                /\ c \in DOMAIN budgets
                /\ ~budgets[c].alerts_triggered
                /\ budgets'[c].alerts_triggered]_vars

(* An alerted budget, at 150% of its limit, has just taken one more        *)
(* add_spending without a second alert.                                    *)
C1_Witness ==
    /\ Spends(last, "FOOD")
    /\ "FOOD" \in DOMAIN budgets
    /\ budgets["FOOD"].alerts_triggered
    /\ last.alerts = <<>>
    /\ PercentageUsed(budgets["FOOD"]) = Int2Q(150)

(* C2: the alert is printed in exactly the first add_spending call that    *)
(* leaves percentage_used() >= alert_threshold. Every returning call on a  *)
(* budget prints the alert iff the budget was not alerts_triggered and     *)
(* the call leaves percentage_used() >= alert_threshold, and it leaves the *)
(* budget alerts_triggered iff it was so or the percentage is now at the   *)
(* threshold; no other step changes a budget that stays. For limit 1000    *)
(* and threshold 80 the call prints the alert iff the budget was not       *)
(* alerts_triggered and the spend it leaves is at least 800.               *)
C2_AlertAtFirstCrossing ==
    [][\A c \in DOMAIN budgets :
          IF Spends(last', c)
          THEN LET b == budgets[c]
                   b1 == budgets'[c]
                   crossed == RLe(b1.alert_threshold, PercentageUsed(b1))
               IN  /\ (AlertsFor(last', c) # {}) <=> (~b.alerts_triggered /\ crossed)
                   /\ b1.alerts_triggered <=> (b.alerts_triggered \/ crossed)
                   /\ (b.monthly_limit = Int2Q(1000) /\ b.alert_threshold = Int2Q(80)) =>
                         ((AlertsFor(last', c) # {}) <=>
                             (~b.alerts_triggered /\ RLe(Int2Q(800), b1.current_spending)))
          ELSE (~Replaces(last', c)) => (budgets'[c] = budgets[c])]_vars

(* The call that brings a 1000/80 budget from 799 to exactly 800 prints    *)
(* the alert.                                                              *)
C2_Witness ==
    /\ Spends(last, "FOOD")
    /\ last.ret.amount = Int2Q(1)
    /\ "FOOD" \in DOMAIN budgets
    /\ budgets["FOOD"].monthly_limit = Int2Q(1000)
    /\ budgets["FOOD"].alert_threshold = Int2Q(80)
    /\ budgets["FOOD"].current_spending = Int2Q(800)
    /\ Len(last.alerts) = 1
    /\ last.alerts[1].category = "FOOD"
    /\ last.alerts[1].percentage = Int2Q(80)

(* C3 as claimed: an add_expense that raises UnsupportedCurrency leaves    *)
(* the ledger and the budgets as they were.                                *)
C3_FailedAddChangesNothing ==
    [][(last'.op = "add_expense" /\ last'.raised = "UnsupportedCurrency") =>
          (expenses' = expenses /\ budgets' = budgets)]_vars

(* C9: a returning add_expense appends the record it returns and nothing   *)
(* else to the ledger; it calls add_spending once, with the record's       *)
(* amount and currency, on the budget of the record's category iff there   *)
(* is one, which adds the converted amount to that budget's spend; every   *)
(* other budget is as before. No other operation changes the ledger.       *)
C9_AddAppendsAndNotifies ==
    [][IF last'.op = "add_expense"
       THEN last'.raised = "none" =>
              LET e == last'.ret
              IN  /\ expenses' = Append(expenses, e)
                  /\ DOMAIN budgets' = DOMAIN budgets
                  /\ \A c \in DOMAIN budgets \ {e.category} : budgets'[c] = budgets[c]
                  /\ IF e.category \in DOMAIN budgets
                     THEN /\ last'.spent = <<[category |-> e.category,
                                              amount |-> e.amount,
                                              currency |-> e.currency]>>
                          /\ budgets'[e.category].current_spending =
                                RAdd(budgets[e.category].current_spending,
                                     Convert(rates', e.amount, e.currency,
                                             budgets[e.category].currency).value)
                     ELSE last'.spent = <<>>
       ELSE expenses' = expenses]_vars

(* The third record goes to HOUSING's budget while FOOD's budget, which    *)
(* took a converted amount before, is untouched.                           *)
C9_Witness ==
    /\ Spends(last, "HOUSING")
    /\ Len(expenses) = 3
    /\ expenses[3] = last.ret
    /\ expenses[1].currency = "EUR"
    /\ "FOOD" \in DOMAIN budgets
    /\ RLt(Zero, budgets["FOOD"].current_spending)
    /\ budgets["FOOD"].current_spending # Int2Q(10)

(* C10 as claimed: no budget's running spend is negative.                  *)
C10_SpendNonNegative ==
    \A c \in DOMAIN budgets : RLe(Zero, budgets[c].current_spending)

----------------------------------------------------------------------------
(* The converter alone: construction from any cache file, refreshes with   *)
(* any outcome of the fetch and of the save, conversions, and the clock.   *)

ConvertAmounts == {Int2Q(100), Int2Q(-3)}
ConvertCodes == {"INR", "USD", "EUR"}

InitRates == InitWith(InitialFiles, {"INR"})

NextRates ==
    \/ \E f \in FetchOutcomes, ok \in BOOLEAN : Construct(f, ok)
    \/ \E f \in FetchOutcomes, ok \in BOOLEAN : UpdateRatesOp(f, ok)
    \/ \E a \in ConvertAmounts, from \in ConvertCodes, to \in ConvertCodes :
          ConvertOp(a, from, to)
    \/ \E h \in TickSteps : Tick(h)

SpecRates == InitRates /\ [][NextRates]_vars

(* C4 as claimed: an update_rates that prints its "Failed to update"       *)
(* warning made one fetch and left _rates and _last_update as they were.   *)
C4_FailedRefreshKeepsTable ==
    [][(last'.op = "update_rates" /\ last'.warned) =>
          (rates' = rates /\ lastUpdate' = lastUpdate /\ last'.fetches = 1)]_vars

(* C5 as claimed: the table always has an entry for each of the 8 codes,   *)
(* and its INR entry is 1.0.                                               *)
C5_TableTotalWithUnitBase ==
    /\ Currency \subseteq DOMAIN rates
    /\ rates["INR"] = Int2Q(1)

(* C6: convert(amount, from, to) leaves the table alone; with from = to it *)
(* returns amount, in the table or not; otherwise it raises                *)
(* UnsupportedCurrency exactly when from or to has no entry, and else      *)
(* returns the value v with v * rate[from] = amount * rate[to].            *)
C6_ConvertContract ==
    [][last'.op = "convert" =>
          LET a == last'.args
              v == last'.ret
          IN  /\ rates' = rates
              /\ lastUpdate' = lastUpdate
              /\ IF a.from = a.to
                 THEN last'.raised = "none" /\ v = a.amount
                 ELSE IF a.from \notin DOMAIN rates \/ a.to \notin DOMAIN rates
                      THEN last'.raised = "UnsupportedCurrency"
                      ELSE /\ last'.raised = "none"
                           /\ v.n * rates[a.from].n * a.amount.d * rates[a.to].d
                                = a.amount.n * rates[a.to].n * v.d * rates[a.from].d]_vars

(* 100 USD in EUR under the built-in table: 100 / 0.012 * 0.011.           *)
C6_Witness ==
    /\ last.op = "convert"
    /\ last.raised = "none"
    /\ last.args = [amount |-> Int2Q(100), from |-> "USD", to |-> "EUR"]
    /\ rates = DefaultRates
    /\ last.ret = Q(275, 3)

----------------------------------------------------------------------------
(* The categoriser: expenses with and without an explicit category, tags   *)
(* and descriptions, against a registry that add_tag extends and changes.  *)

Uber == <<"U","b","e","r">>
El == <<"e","l">>
Xy == <<"x","y">>
RentFuel == <<"r","e","n","t"," ","f","u","e","l">>
RentUpper == <<"R","E","N","T">>

ClassifyInputs ==
    {[category |-> "FOOD", tags |-> <<Rent>>, description |-> Fuel],
     [category |-> NoCategory, tags |-> <<Xy, Rent>>, description |-> Fuel],
     [category |-> NoCategory, tags |-> <<Rent, Fuel>>, description |-> Xy],
     [category |-> NoCategory, tags |-> <<Uber>>, description |-> Xy],
     [category |-> NoCategory, tags |-> <<>>, description |-> RentFuel],
     [category |-> NoCategory, tags |-> <<>>, description |-> RentUpper],
     [category |-> NoCategory, tags |-> <<>>, description |-> Uber],
     [category |-> NoCategory, tags |-> <<>>, description |-> Xy]}

TagInputs ==
    {[name |-> Uber, category |-> "TRANSPORTATION"],
     [name |-> El, category |-> "SHOPPING"],
     [name |-> Rent, category |-> "UTILITIES"]}

InitClassify == InitWith({AbsentFile}, {"INR"})

NextClassify ==
    \/ \E t \in TagInputs : AddTag(t.name, t.category)
    \/ \E i \in ClassifyInputs :
          AddExpense(Int2Q(50), i.description, NoDate, i.category, NoCurrency, FALSE,
                     0, i.tags, "Cash", [kind |-> "error", rates |-> EmptyTable], TRUE)

SpecClassify == InitClassify /\ [][NextClassify]_vars

(* name occurs in description, letter case ignored on both sides *)
OccursIgnoringCase(name, description) == Contains(Lower(name), Lower(description))

Registered(name) == \E i \in DOMAIN tags : tags[i].name = name

CategoryOfTag(name) == tags[CHOOSE i \in DOMAIN tags : tags[i].name = name].category

(* C7 as claimed: the category of the record add_expense returns is the    *)
(* explicit category if one was given; else the category of the first tag  *)
(* given that is registered; else the category of the first registry       *)
(* entry, in registration order, whose name occurs in the description      *)
(* (letter case ignored, as section 4.3 has it); else OTHER.               *)
C7_ResolutionPrecedence ==
    last.op = "add_expense" =>
        LET a == last.args
            got == last.ret.category
            tagHits == {i \in DOMAIN a.tags : Registered(a.tags[i])}
            descHits == {i \in DOMAIN tags :
                            OccursIgnoringCase(tags[i].name, a.description)}
        IN  IF a.category # NoCategory THEN got = a.category
            ELSE IF tagHits # {}
                 THEN \E i \in tagHits :
                         /\ \A j \in tagHits : i <= j
                         /\ got = CategoryOfTag(a.tags[i])
            ELSE IF descHits # {}
                 THEN \E i \in descHits :
                         /\ \A j \in descHits : i <= j
                         /\ got = tags[i].category
            ELSE got = "OTHER"

(* C8 as claimed: when the description fallback decides (no explicit       *)
(* category, no registered tag given), a registry entry whose name occurs  *)
(* in the description with letter case ignored on both sides, and that no  *)
(* earlier entry precedes in this, gives the category.                     *)
C8_FallbackIgnoresCase ==
    (/\ last.op = "add_expense"
     /\ last.args.category = NoCategory
     /\ \A k \in DOMAIN last.args.tags : ~Registered(last.args.tags[k])) =>
        \A i \in DOMAIN tags :
            (/\ OccursIgnoringCase(tags[i].name, last.args.description)
             /\ \A j \in 1..(i - 1) :
                   ~OccursIgnoringCase(tags[j].name, last.args.description)) =>
                last.ret.category = tags[i].category

----------------------------------------------------------------------------
(* Aggregation: User.get_spending_breakdown and the reports built on the   *)
(* ledger. Dates are (year, month, day); datetime.date orders them         *)
(* lexicographically.                                                      *)

DateLt(a, b) ==
    \/ a[1] < b[1]
    \/ a[1] = b[1] /\ a[2] < b[2]
    \/ a[1] = b[1] /\ a[2] = b[2] /\ a[3] < b[3]

DateLe(a, b) == a = b \/ DateLt(a, b)

(* The two "continue" tests of the loops; a date object is always truthy,  *)
(* so a bound is skipped only when it is None.                             *)
InRange(d, start_date, end_date) ==
    /\ ~(start_date # NoDate /\ DateLt(d, start_date))
    /\ ~(end_date # NoDate /\ DateLt(end_date, d))

(* amount = expense.amount if expense.currency == target_currency else     *)
(* converter.convert(...)                                                  *)
AmountIn(table, expense, target_currency) ==
    IF expense.currency = target_currency
    THEN [raised |-> "none", value |-> expense.amount]
    ELSE Convert(table, expense.amount, expense.currency, target_currency)

ZeroBreakdown == [c \in ExpenseCategory |-> Zero]

(* The loop of get_spending_breakdown from record i on, acc being the      *)
(* breakdown dict so far; a conversion error leaves the loop.              *)
RECURSIVE BreakdownLoop(_, _, _, _, _, _, _)
BreakdownLoop(exps, i, table, target_currency, start_date, end_date, acc) ==
    IF i > Len(exps) THEN [raised |-> "none", breakdown |-> acc]
    ELSE IF ~InRange(exps[i].date, start_date, end_date)
         THEN BreakdownLoop(exps, i + 1, table, target_currency, start_date, end_date, acc)
         ELSE LET a == AmountIn(table, exps[i], target_currency)
                  c == exps[i].category
              IN  IF a.raised # "none"
                  THEN [raised |-> a.raised, breakdown |-> acc]
                  ELSE BreakdownLoop(exps, i + 1, table, target_currency, start_date,
                                     end_date, [acc EXCEPT ![c] = RAdd(acc[c], a.value)])

(* get_spending_breakdown, given the converter's table: the categories     *)
(* with a positive sum.                                                    *)
GetSpendingBreakdown(exps, table, target_currency, start_date, end_date) ==
    LET l == BreakdownLoop(exps, 1, table, target_currency, start_date, end_date,
                           ZeroBreakdown)
    IN  IF l.raised # "none" THEN [raised |-> l.raised, ret |-> "None"]
        ELSE [raised |-> "none",
              ret |-> [c \in {k \in ExpenseCategory : RLt(Zero, l.breakdown[k])} |->
                          l.breakdown[c]]]

RangeArgs(target_currency, start_date, end_date) ==
    [target_currency |-> target_currency, start_date |-> start_date,
     end_date |-> end_date]

(* user.get_spending_breakdown(target_currency, start_date, end_date)      *)
GetSpendingBreakdownOp(target_currency, start_date, end_date, fetch, saveOk) ==
    LET target == IF target_currency = NoCurrency THEN default_currency
                  ELSE target_currency
        g == GetConverter(inst, ConverterState, cacheFile, fetch, saveOk, now)
        r == GetSpendingBreakdown(expenses, g.rates, target, start_date, end_date)
    IN  /\ inst' = TRUE
        /\ rates' = g.rates
        /\ lastUpdate' = g.last
        /\ cacheFile' = g.file
        /\ last' = Outcome("get_spending_breakdown",
                           RangeArgs(target_currency, start_date, end_date),
                           r.raised, g.warned, g.fetches, <<>>, <<>>, r.ret)
        /\ UNCHANGED <<now, expenses, budgets, tags, default_currency, dataFile>>

----------------------------------------------------------------------------
(* ReportGenerator.generate_spending_trend: the monthly data it plots.     *)

(* min / max of the ledger's dates *)
MinDate(exps) ==
    exps[CHOOSE i \in DOMAIN exps :
            \A j \in DOMAIN exps : DateLe(exps[i].date, exps[j].date)].date

MaxDate(exps) ==
    exps[CHOOSE i \in DOMAIN exps :
            \A j \in DOMAIN exps : DateLe(exps[j].date, exps[i].date)].date

(* A slip of the month step: the day of the month is kept.                 *)
NextMonthKeepDay(current_date) ==
    IF current_date[2] = 12 THEN <<current_date[1] + 1, 1, current_date[3]>>
    ELSE <<current_date[1], current_date[2] + 1, current_date[3]>>

(* "Move to next month": the first day of the month after current_date.    *)
NextMonth(current_date) ==
    IF current_date[2] = 12 THEN <<current_date[1] + 1, 1, 1>>
    ELSE <<current_date[1], current_date[2] + 1, 1>>

(* The keys the while loop gives monthly_data, from current_date on.       *)
RECURSIVE MonthKeys(_, _)
MonthKeys(current_date, end_date) ==
    IF DateLe(current_date, end_date)
    THEN {<<current_date[1], current_date[2]>>}
            \cup MonthKeys(NextMonth(current_date), end_date)
    ELSE {}

(* The second loop from record i on: a record outside the range is         *)
(* skipped, its amount is converted, and the bucket of its (year, month)   *)
(* is looked up.                                                           *)
RECURSIVE TrendLoop(_, _, _, _, _, _, _)
TrendLoop(exps, i, table, target_currency, start_date, end_date, monthly_data) ==
    IF i > Len(exps) THEN [raised |-> "none", monthly_data |-> monthly_data]
    ELSE IF DateLt(exps[i].date, start_date) \/ DateLt(end_date, exps[i].date)
         THEN TrendLoop(exps, i + 1, table, target_currency, start_date, end_date, monthly_data)
         ELSE LET year_month == <<exps[i].date[1], exps[i].date[2]>>
                  a == AmountIn(table, exps[i], target_currency)
                  c == exps[i].category
              IN  IF a.raised # "none"
                  THEN [raised |-> a.raised, monthly_data |-> monthly_data]
                  ELSE IF year_month \notin DOMAIN monthly_data
                       THEN [raised |-> "KeyError", monthly_data |-> monthly_data]
                       ELSE TrendLoop(exps, i + 1, table, target_currency, start_date,
                                      end_date,
                                      [monthly_data EXCEPT ![year_month][c] =
                                          RAdd(monthly_data[year_month][c], a.value)])

(* The monthly data of generate_spending_trend for bounds already          *)
(* defaulted.                                                              *)
MonthlyData(exps, table, target_currency, start_date, end_date) ==
    TrendLoop(exps, 1, table, target_currency, start_date, end_date,
              [k \in MonthKeys(start_date, end_date) |-> ZeroBreakdown])

(* ReportGenerator.generate_spending_trend(user, target_currency,          *)
(* start_date, end_date): min() and max() of an empty ledger raise before  *)
(* the converter is obtained.                                              *)
GenerateSpendingTrend(target_currency, start_date, end_date, fetch, saveOk) ==
    LET target == IF target_currency = NoCurrency THEN default_currency
                  ELSE target_currency
        args == RangeArgs(target_currency, start_date, end_date)
    IN  IF (start_date = NoDate \/ end_date = NoDate) /\ expenses = <<>>
        THEN /\ last' = Outcome("generate_spending_trend", args, "ValueError", FALSE, 0,
                                <<>>, <<>>, "None")
             /\ UNCHANGED <<inst, rates, lastUpdate, cacheFile, now, expenses, budgets,
                            tags, default_currency, dataFile>>
        ELSE LET start == IF start_date = NoDate THEN MinDate(expenses) ELSE start_date
                 end == IF end_date = NoDate THEN MaxDate(expenses) ELSE end_date
                 g == GetConverter(inst, ConverterState, cacheFile, fetch, saveOk, now)
                 r == MonthlyData(expenses, g.rates, target, start, end)
             IN  /\ inst' = TRUE
                 /\ rates' = g.rates
                 /\ lastUpdate' = g.last
                 /\ cacheFile' = g.file
                 /\ last' = Outcome("generate_spending_trend", args, r.raised, g.warned,
                                    g.fetches, <<>>, <<>>,
                                    IF r.raised = "none" THEN r.monthly_data ELSE "None")
                 /\ UNCHANGED <<now, expenses, budgets, tags, default_currency, dataFile>>

----------------------------------------------------------------------------
(* The other aggregations: recurring expenses, expenses by tag, the text   *)
(* report and the CSV export. Figures are kept as numbers; format_currency *)
(* only prints them.                                                       *)

(* User.get_recurring_expenses *)
GetRecurringExpenses(exps) == SelectSeq(exps, LAMBDA e : e.is_recurring)

(* User.get_expenses_by_tag *)
GetExpensesByTag(exps, tag) ==
    SelectSeq(exps, LAMBDA e : \E i \in DOMAIN e.tags : e.tags[i] = tag)

(* The sum of the values of a mapping: sum(breakdown.values()) *)
RECURSIVE SumValues(_, _)
SumValues(f, S) ==
    IF S = {} THEN Zero
    ELSE LET x == CHOOSE y \in S : TRUE
         IN  RAdd(f[x], SumValues(f, S \ {x}))

(* The lines of the category breakdown, printed by descending amount.      *)
CategoryLines(breakdown, total) ==
    [c \in DOMAIN breakdown |->
        [amount |-> breakdown[c],
         percentage |-> IF RLt(Zero, total)
                        THEN RMul(RDiv(breakdown[c], total), Hundred) ELSE Zero]]

(* The figures of one budget status line: converted and subtracted when    *)
(* the budget's currency is not the target, str(budget) otherwise.         *)
BudgetStatusLine(b, table, target_currency) ==
    IF b.currency # target_currency
    THEN LET limit == Convert(table, b.monthly_limit, b.currency, target_currency)
             spending == Convert(table, b.current_spending, b.currency, target_currency)
         IN  IF limit.raised # "none"
             THEN [raised |-> limit.raised, spending |-> Zero, limit |-> Zero,
                   percentage |-> Zero, remaining |-> Zero]
             ELSE [raised |-> "none", spending |-> spending.value, limit |-> limit.value,
                   percentage |-> IF limit.value.n # 0
                                  THEN RMul(RDiv(spending.value, limit.value), Hundred)
                                  ELSE Zero,
                   remaining |-> RSub(limit.value, spending.value)]
    ELSE [raised |-> "none", spending |-> b.current_spending, limit |-> b.monthly_limit,
          percentage |-> PercentageUsed(b), remaining |-> RemainingBudget(b)]

(* The amounts of the recurring lines. *)
RecurringLines(exps, table, target_currency) ==
    LET recurring == GetRecurringExpenses(exps)
    IN  [i \in DOMAIN recurring |-> AmountIn(table, recurring[i], target_currency)]

(* The exception a sequence of steps ends with: that of its first step     *)
(* that raises.                                                            *)
FirstRaised(steps) ==
    LET bad == {i \in DOMAIN steps : steps[i].raised # "none"}
    IN  IF bad = {} THEN "none" ELSE steps[MinOf(bad)].raised

(* ReportGenerator.generate_text_report, given the converter's table. The  *)
(* model's budgets carry no dict order; every conversion error of this     *)
(* model's tables being the same exception, the order does not show.       *)
TextReport(exps, policies, table, target_currency, start_date, end_date) ==
    LET bd == GetSpendingBreakdown(exps, table, target_currency, start_date, end_date)
        status == [c \in DOMAIN policies |->
                      BudgetStatusLine(policies[c], table, target_currency)]
        failed == {c \in DOMAIN policies : status[c].raised # "none"}
        rec == RecurringLines(exps, table, target_currency)
    IN  IF bd.raised # "none" THEN [raised |-> bd.raised, ret |-> "None"]
        ELSE IF failed # {}
             THEN [raised |-> status[CHOOSE c \in failed : TRUE].raised, ret |-> "None"]
             ELSE IF FirstRaised(rec) # "none"
                  THEN [raised |-> FirstRaised(rec), ret |-> "None"]
                  ELSE LET total == SumValues(bd.ret, DOMAIN bd.ret)
                       IN  [raised |-> "none",
                            ret |-> [breakdown |-> CategoryLines(bd.ret, total),
                                     total |-> total,
                                     budget_status |-> status,
                                     recurring |-> [i \in DOMAIN rec |-> rec[i].value]]]

(* ReportGenerator.generate_text_report(user, target_currency, start_date, *)
(* end_date)                                                               *)
GenerateTextReport(target_currency, start_date, end_date, fetch, saveOk) ==
    LET target == IF target_currency = NoCurrency THEN default_currency
                  ELSE target_currency
        g == GetConverter(inst, ConverterState, cacheFile, fetch, saveOk, now)
        r == TextReport(expenses, budgets, g.rates, target, start_date, end_date)
    IN  /\ inst' = TRUE
        /\ rates' = g.rates
        /\ lastUpdate' = g.last
        /\ cacheFile' = g.file
        /\ last' = Outcome("generate_text_report",
                           RangeArgs(target_currency, start_date, end_date),
                           r.raised, g.warned, g.fetches, <<>>, <<>>, r.ret)
        /\ UNCHANGED <<now, expenses, budgets, tags, default_currency, dataFile>>

(* The rows of generate_csv_report: the records within the range with      *)
(* their amounts in the target currency.                                   *)
CsvRows(exps, table, target_currency, start_date, end_date) ==
    LET rows == SelectSeq(exps, LAMBDA e : InRange(e.date, start_date, end_date))
        amounts == [i \in DOMAIN rows |-> AmountIn(table, rows[i], target_currency)]
    IN  IF FirstRaised(amounts) # "none"
        THEN [raised |-> FirstRaised(amounts), ret |-> "None"]
        ELSE [raised |-> "none",
              ret |-> [i \in DOMAIN rows |->
                          [Date |-> rows[i].date, Amount |-> amounts[i].value,
                           Currency |-> target_currency,
                           Category |-> rows[i].category,
                           Description |-> rows[i].description,
                           IsRecurring |-> rows[i].is_recurring]]]

(* ReportGenerator.generate_csv_report: the rows go to the CSV file, which *)
(* is no part of the program's state.                                      *)
GenerateCsvReport(target_currency, start_date, end_date, fetch, saveOk) ==
    LET target == IF target_currency = NoCurrency THEN default_currency
                  ELSE target_currency
        g == GetConverter(inst, ConverterState, cacheFile, fetch, saveOk, now)
        r == CsvRows(expenses, g.rates, target, start_date, end_date)
    IN  /\ inst' = TRUE
        /\ rates' = g.rates
        /\ lastUpdate' = g.last
        /\ cacheFile' = g.file
        /\ last' = Outcome("generate_csv_report",
                           RangeArgs(target_currency, start_date, end_date),
                           r.raised, g.warned, g.fetches, <<>>, <<>>, r.ret)
        /\ UNCHANGED <<now, expenses, budgets, tags, default_currency, dataFile>>

(* user.get_recurring_expenses() *)
GetRecurringExpensesOp ==
    /\ last' = Outcome("get_recurring_expenses", <<>>, "none", FALSE, 0, <<>>, <<>>,
                       GetRecurringExpenses(expenses))
    /\ UNCHANGED <<inst, rates, lastUpdate, cacheFile, now, expenses, budgets, tags,
                   default_currency, dataFile>>

(* user.get_expenses_by_tag(tag) *)
GetExpensesByTagOp(tag) ==
    /\ last' = Outcome("get_expenses_by_tag", [tag |-> tag], "none", FALSE, 0, <<>>,
                       <<>>, GetExpensesByTag(expenses, tag))
    /\ UNCHANGED <<inst, rates, lastUpdate, cacheFile, now, expenses, budgets, tags,
                   default_currency, dataFile>>

----------------------------------------------------------------------------
(* ExpenseTrackerApp.save_data and load_data: the snapshot in              *)
(* expense_tracker_data.json.                                              *)

(* The JSON document save_data writes: the records as they are, of every   *)
(* budget its limit, currency and threshold only, and the tags.            *)
Snapshot(cur, exps, policies, registry) ==
    [exists |-> TRUE,
     default_currency |-> cur,
     expenses |-> exps,
     budgets |-> [c \in DOMAIN policies |->
                     [category |-> c,
                      monthly_limit |-> policies[c].monthly_limit,
                      currency |-> policies[c].currency,
                      alert_threshold |-> policies[c].alert_threshold]],
     tags |-> registry]

(* app.save_data() *)
SaveData ==
    /\ dataFile' = Snapshot(default_currency, expenses, budgets, tags)
    /\ last' = Outcome("save_data", <<>>, "none", FALSE, 0, <<>>, <<>>, "None")
    /\ UNCHANGED <<inst, rates, lastUpdate, cacheFile, now, expenses, budgets, tags,
                   default_currency>>

(* The add_expense calls of load_data from stored record i on, on the user *)
(* u being rebuilt: each names its stored category, and tells the budget   *)
(* of that category if the user has one; an exception ends the load.       *)
RECURSIVE ReplayExpenses(_, _, _, _)
ReplayExpenses(stored, i, table, u) ==
    IF i > Len(stored) THEN u
    ELSE LET e == stored[i]
             cat == ResolveCategory(u.tags, e.category, e.tags, e.description)
             expense == [e EXCEPT !.category = cat]
             u1 == [u EXCEPT !.expenses = Append(u.expenses, expense)]
         IN  IF cat \in DOMAIN u.budgets
             THEN LET sp == AddSpending(u.budgets[cat], table, e.amount, e.currency)
                  IN  IF sp.raised # "none" THEN [u1 EXCEPT !.raised = sp.raised]
                      ELSE ReplayExpenses(stored, i + 1, table,
                              [u1 EXCEPT !.budgets[cat] = sp.budget,
                                         !.alerts = u.alerts \o sp.alerts])
             ELSE ReplayExpenses(stored, i + 1, table, u1)

(* The set_budget calls of load_data. *)
InstallBudgets(stored, u) ==
    [u EXCEPT !.budgets =
        [c \in DOMAIN u.budgets \cup DOMAIN stored |->
            IF c \in DOMAIN stored
            THEN NewBudget(c, stored[c].monthly_limit, stored[c].currency,
                           stored[c].alert_threshold)
            ELSE u.budgets[c]]]

(* The tags of load_data, put into the new user's registry in the order    *)
(* stored.                                                                 *)
RECURSIVE InstallTags(_, _, _)
InstallTags(stored, i, registry) ==
    IF i > Len(stored) THEN registry
    ELSE InstallTags(stored, i + 1, PutTag(registry, stored[i].name, stored[i].category))

(* User(name, default_currency) *)
NewUser(cur) ==
    [default_currency |-> cur, expenses |-> <<>>, budgets |-> NoBudgets,
     tags |-> DefaultTags, alerts |-> <<>>, raised |-> "none"]

(* A slip of load_data: the budgets are installed before the expenses are  *)
(* replayed.                                                               *)
RestoreBudgetsFirst(data, table) ==
    LET u1 == InstallBudgets(data.budgets, NewUser(data.default_currency))
        u2 == ReplayExpenses(data.expenses, 1, table, u1)
    IN  IF u2.raised # "none" THEN u2
        ELSE [u2 EXCEPT !.tags = InstallTags(data.tags, 1, u2.tags)]

(* The user load_data builds from the document: the expenses are replayed  *)
(* first, then the budgets are set, then the tags.                         *)
Restore(data, table) ==
    LET u1 == ReplayExpenses(data.expenses, 1, table, NewUser(data.default_currency))
    IN  IF u1.raised # "none" THEN u1
        ELSE LET u2 == InstallBudgets(data.budgets, u1)
             IN  [u2 EXCEPT !.tags = InstallTags(data.tags, 1, u2.tags)]

(* app.load_data(): without the file nothing happens; an exception is      *)
(* caught and leaves the user as far as it was built.                      *)
LoadData ==
    /\ IF ~dataFile.exists
       THEN /\ last' = Outcome("load_data", <<>>, "none", FALSE, 0, <<>>, <<>>, "None")
            /\ UNCHANGED <<expenses, budgets, tags, default_currency>>
       ELSE LET u == Restore(dataFile, rates)
            IN  /\ expenses' = u.expenses
                /\ budgets' = u.budgets
                /\ tags' = u.tags
                /\ default_currency' = u.default_currency
                /\ last' = Outcome("load_data", <<>>, u.raised, FALSE, 0, u.alerts,
                                   <<>>, "None")
    /\ UNCHANGED <<inst, rates, lastUpdate, cacheFile, now, dataFile>>

----------------------------------------------------------------------------
(* The reports: a ledger of dated records in two currencies, one of them   *)
(* of negative amount, read over open, closed and inverted ranges; the     *)
(* first report builds the converter, and only then is the rate source     *)
(* asked.                                                                  *)

Nov20 == <<2024, 11, 20>>
Nov25 == <<2024, 11, 25>>
Dec31 == <<2024, 12, 31>>
Jan01 == <<2025, 1, 1>>
Jan10 == <<2025, 1, 10>>
Jan15 == <<2025, 1, 15>>

ReportExpenses ==
    {[amount |-> Int2Q(100), category |-> "FOOD", currency |-> "INR", date |-> Nov20,
      is_recurring |-> FALSE, tags |-> <<>>],
     [amount |-> Int2Q(40), category |-> "FOOD", currency |-> "EUR", date |-> Dec31,
      is_recurring |-> TRUE, tags |-> <<Rent>>],
     [amount |-> Int2Q(-5), category |-> "HOUSING", currency |-> "INR", date |-> Jan01,
      is_recurring |-> FALSE, tags |-> <<>>]}

ReportTargets == {NoCurrency, "USD"}

ReportRanges ==
    {<<NoDate, NoDate>>, <<Nov25, Jan01>>, <<Dec31, NoDate>>, <<Jan15, Jan10>>}

ExportRanges == {<<NoDate, NoDate>>, <<Nov25, Jan01>>}

ReportFetches ==
    {[kind |-> "error", rates |-> EmptyTable], [kind |-> "ok", rates |-> FullTable],
     [kind |-> "ok", rates |-> PartialTable]}

FetchesNow == IF inst THEN {[kind |-> "error", rates |-> EmptyTable]} ELSE ReportFetches

InitReports == InitWith({AbsentFile}, {"INR"})

NextReports ==
    \/ \E e \in ReportExpenses :
          AddExpense(e.amount, Fuel, e.date, e.category, e.currency, e.is_recurring,
                     30, e.tags, "Cash", [kind |-> "error", rates |-> EmptyTable], TRUE)
    \/ \E t \in ReportTargets, r \in ReportRanges, f \in FetchesNow :
          GetSpendingBreakdownOp(t, r[1], r[2], f, TRUE)
    \/ \E t \in ReportTargets, r \in ReportRanges, f \in FetchesNow :
          GenerateSpendingTrend(t, r[1], r[2], f, TRUE)
    \/ \E t \in ReportTargets, r \in ExportRanges, f \in FetchesNow :
          GenerateTextReport(t, r[1], r[2], f, TRUE)
    \/ \E t \in ReportTargets, r \in ExportRanges, f \in FetchesNow :
          GenerateCsvReport(t, r[1], r[2], f, TRUE)
    \/ GetRecurringExpensesOp
    \/ GetExpensesByTagOp(Rent)

SpecReports == InitReports /\ [][NextReports]_vars

(* The sum of f over S. *)
RECURSIVE SumOver(_, _)
SumOver(f, S) ==
    IF S = {} THEN Zero
    ELSE LET x == CHOOSE y \in S : TRUE
         IN  RAdd(f[x], SumOver(f, S \ {x}))

TargetOf(o) ==
    IF o.args.target_currency = NoCurrency THEN default_currency
    ELSE o.args.target_currency

(* The records of the ledger dated start <= d <= end, an omitted bound     *)
(* being unbounded.                                                        *)
Included(o) ==
    {i \in DOMAIN expenses :
        /\ o.args.start_date = NoDate \/ DateLe(o.args.start_date, expenses[i].date)
        /\ o.args.end_date = NoDate \/ DateLe(expenses[i].date, o.args.end_date)}

(* The amount of record i in the target currency of the call. *)
ConvertedAmounts(o) ==
    [i \in DOMAIN expenses |->
        Convert(rates, expenses[i].amount, expenses[i].currency, TargetOf(o)).value]

(* C11: the values of the mapping get_spending_breakdown returns add up to *)
(* the converted amounts of exactly the records dated start <= d <= end    *)
(* (an omitted bound is unbounded).                                        *)
C11_BreakdownSumsIncluded ==
    (last.op = "get_spending_breakdown" /\ last.raised = "none") =>
        SumOver(last.ret, DOMAIN last.ret)
            = SumOver(ConvertedAmounts(last), Included(last))

(* The bounds the trend works with: a bound left out is the earliest, or   *)
(* the latest, date of the ledger.                                         *)
TrendStart(o) ==
    IF o.args.start_date = NoDate THEN MinDate(expenses) ELSE o.args.start_date

TrendEnd(o) ==
    IF o.args.end_date = NoDate THEN MaxDate(expenses) ELSE o.args.end_date

MonthNumber(y, m) == 12 * y + m

Years == 2023..2026

(* The calendar months from the month of date a through the month of b.    *)
MonthsThrough(a, b) ==
    {k \in Years \X (1..12) :
        /\ MonthNumber(a[1], a[2]) <= MonthNumber(k[1], k[2])
        /\ MonthNumber(k[1], k[2]) <= MonthNumber(b[1], b[2])}

TrendReturned(o) == o.op = "generate_spending_trend" /\ o.raised = "none"

(* C12: for a range start <= end the monthly data of the trend has exactly *)
(* the calendar months from the month of start through the month of end as *)
(* its buckets, whatever the days of start and end and whether or not a    *)
(* month has expenses, and every record dated within the range has the     *)
(* bucket of its (year, month), so that no record makes the lookup fail.   *)
C12_TrendBuckets ==
    /\ (TrendReturned(last) /\ DateLe(TrendStart(last), TrendEnd(last))) =>
          /\ DOMAIN last.ret = MonthsThrough(TrendStart(last), TrendEnd(last))
          /\ \A i \in DOMAIN expenses :
                (DateLe(TrendStart(last), expenses[i].date)
                    /\ DateLe(expenses[i].date, TrendEnd(last))) =>
                   <<expenses[i].date[1], expenses[i].date[2]>> \in DOMAIN last.ret
    /\ last.raised # "KeyError"

(* A trend from 25 Nov 2024 to 1 Jan 2025 returned three buckets across    *)
(* the year boundary: November is empty, the record of 1 Jan is in its     *)
(* bucket.                                                                 *)
C12_Witness ==
    /\ TrendReturned(last)
    /\ last.args.start_date = Nov25
    /\ last.args.end_date = Jan01
    /\ DOMAIN last.ret = {<<2024, 11>>, <<2024, 12>>, <<2025, 1>>}
    /\ last.ret[<<2024, 11>>] = ZeroBreakdown
    /\ last.ret[<<2025, 1>>]["HOUSING"] = Int2Q(-5)
    /\ last.ret[<<2024, 12>>]["FOOD"] # Zero

(* The total of category c over all the buckets of monthly data md. *)
TrendTotal(md, c) == SumOver([k \in DOMAIN md |-> md[k][c]], DOMAIN md)

(* The value of category c in the mapping bd get_spending_breakdown        *)
(* returned, a category it does not hold counting 0.                       *)
BreakdownTotal(bd, c) == IF c \in DOMAIN bd THEN bd[c] ELSE Zero

(* C13: whenever the trend returns its monthly data, each category's       *)
(* amounts over all the buckets add up to that category's value in what    *)
(* get_spending_breakdown gives for the same ledger, target currency and   *)
(* range, which is the total of the converted amounts of the category's    *)
(* records dated within the range.                                         *)
C13_TrendAgreesWithBreakdown ==
    TrendReturned(last) =>
        LET bd == GetSpendingBreakdown(expenses, rates, TargetOf(last),
                                       last.args.start_date, last.args.end_date)
        IN  /\ bd.raised = "none"
            /\ \A c \in ExpenseCategory :
                  /\ TrendTotal(last.ret, c) = BreakdownTotal(bd.ret, c)
                  /\ TrendTotal(last.ret, c)
                        = SumOver(ConvertedAmounts(last),
                                  {i \in Included(last) : expenses[i].category = c})

----------------------------------------------------------------------------
(* Budgets under the reports: two budgets, one in the default currency and *)
(* one in USD, records that overspend them, a refresh of the rates, and    *)
(* every aggregation.                                                      *)

StatusBudgets ==
    {[category |-> "FOOD", monthly_limit |-> Int2Q(100), currency |-> NoCurrency,
      alert_threshold |-> Int2Q(80)],
     [category |-> "HOUSING", monthly_limit |-> Int2Q(100), currency |-> "USD",
      alert_threshold |-> Int2Q(80)]}

StatusExpenses ==
    {[amount |-> Int2Q(80), category |-> "FOOD", currency |-> "INR"],
     [amount |-> Int2Q(16000), category |-> "HOUSING", currency |-> "INR"]}

StatusFetches == {[kind |-> "error", rates |-> EmptyTable], [kind |-> "ok", rates |-> FullTable]}

StatusFetchesNow == IF inst THEN {[kind |-> "error", rates |-> EmptyTable]} ELSE StatusFetches

InitStatus == InitWith({AbsentFile}, {"INR"})

NextStatus ==
    \/ \E b \in StatusBudgets :
          SetBudget(b.category, b.monthly_limit, b.currency, b.alert_threshold)
    \/ \E e \in StatusExpenses, f \in StatusFetchesNow :
          AddExpense(e.amount, Fuel, NoDate, e.category, e.currency, FALSE, 0, <<>>,
                     "Cash", f, TRUE)
    \/ \E f \in StatusFetches : UpdateRatesOp(f, TRUE)
    \/ \E t \in ReportTargets, f \in StatusFetchesNow :
          GenerateTextReport(t, NoDate, NoDate, f, TRUE)
    \/ \E f \in StatusFetchesNow : GetSpendingBreakdownOp(NoCurrency, NoDate, NoDate, f, TRUE)
    \/ \E f \in StatusFetchesNow : GenerateSpendingTrend(NoCurrency, NoDate, NoDate, f, TRUE)
    \/ \E f \in StatusFetchesNow : GenerateCsvReport(NoCurrency, NoDate, NoDate, f, TRUE)
    \/ GetRecurringExpensesOp
    \/ GetExpensesByTagOp(Rent)

SpecStatus == InitStatus /\ [][NextStatus]_vars

(* The Budget that set_budget builds from the arguments of call o. *)
InstalledBy(o) ==
    [category |-> o.args.category, monthly_limit |-> o.args.monthly_limit,
     currency |-> IF o.args.currency = NoCurrency THEN default_currency
                  ELSE o.args.currency,
     current_spending |-> Zero, alert_threshold |-> o.args.alert_threshold,
     alerts_triggered |-> FALSE]

(* C14: budgets holds one Budget per category, the one of its key.         *)
(* set_budget(category, ...) puts there a new Budget with current_spending *)
(* 0 and alerts_triggered False, whatever the ledger holds, and leaves the *)
(* budgets of the other categories as they were; and under every other     *)
(* step (add_expense with its add_spending, update_rates, the reports) an  *)
(* alerts_triggered budget stays alerts_triggered.                         *)
C14_ResetOnlyByReplacement ==
    [][/\ \A c \in DOMAIN budgets' : budgets'[c].category = c
       /\ \A c \in ExpenseCategory :
             /\ Replaces(last', c) =>
                   /\ DOMAIN budgets' = DOMAIN budgets \cup {c}
                   /\ budgets'[c] = InstalledBy(last')
                   /\ \A d \in DOMAIN budgets \ {c} : budgets'[d] = budgets[d]
             /\ (c \in DOMAIN budgets /\ budgets[c].alerts_triggered
                   /\ ~Replaces(last', c)) =>
                   (c \in DOMAIN budgets' /\ budgets'[c].alerts_triggered)]_vars

(* set_budget has just replaced the FOOD budget while the ledger holds     *)
(* FOOD records and the alerted HOUSING budget is still alerted.           *)
C14_Witness ==
    /\ Replaces(last, "FOOD")
    /\ \E i \in DOMAIN expenses : expenses[i].category = "FOOD"
    /\ budgets["FOOD"].current_spending = Zero
    /\ ~budgets["FOOD"].alerts_triggered
    /\ "HOUSING" \in DOMAIN budgets
    /\ budgets["HOUSING"].alerts_triggered

----------------------------------------------------------------------------
(* Construction of the converter, checked under SpecRates.                 *)

(* exchange_rates.json holds a table and the time it was saved. *)
PersistedTable(file) == file.kind = "json" /\ file.hasRates /\ file.hasLast

(* C15: the construction of the converter fetches from the rate source iff *)
(* the cache file holds no table (absent or unreadable) or its last_update *)
(* is more than 12 hours before now; a table that is not stale is taken    *)
(* without a fetch; and no construction fetches more than once.            *)
C15_FetchIffAbsentOrStale ==
    [][(~inst /\ last'.op = "construct") =>
          /\ last'.fetches <= 1
          /\ last'.fetches = 1 <=>
                (~PersistedTable(cacheFile)
                    \/ now - cacheFile.last_update > StaleHours)
          /\ (PersistedTable(cacheFile) /\ now - cacheFile.last_update <= StaleHours) =>
                (rates' = cacheFile.rates /\ lastUpdate' = cacheFile.last_update)]_vars

----------------------------------------------------------------------------
(* The aggregations and the state, checked under SpecReports.              *)

Aggregations ==
    {"get_spending_breakdown", "generate_spending_trend", "generate_text_report",
     "generate_csv_report", "get_recurring_expenses", "get_expenses_by_tag"}

(* C16: across a call of an aggregation (breakdown, trend, text report,    *)
(* CSV export, recurring expenses, expenses by tag) the ledger, every      *)
(* budget, the tag registry and the rate table with its last update are    *)
(* as before, also when the call is the first to obtain the converter.     *)
C16_AggregationsReadOnly ==
    [][last'.op \in Aggregations =>
          /\ expenses' = expenses
          /\ budgets' = budgets
          /\ tags' = tags
          /\ rates' = rates
          /\ lastUpdate' = lastUpdate]_vars

----------------------------------------------------------------------------
(* The remaining budget, checked under SpecStatus.                         *)

(* max(0, limit - spending) of budget b *)
ClampedRemaining(b) ==
    IF RLe(b.current_spending, b.monthly_limit)
    THEN RSub(b.monthly_limit, b.current_spending)
    ELSE Zero

(* C17: the remaining budget reported is never negative and is             *)
(* max(0, limit - spending): remaining_budget() of every budget in every   *)
(* state, and the remaining figure of every budget status line of a text   *)
(* report, which is that amount itself when the target currency is the     *)
(* budget's and that amount converted to the target currency otherwise.    *)
C17_RemainingNeverNegative ==
    /\ \A c \in DOMAIN budgets :
          /\ RLe(Zero, RemainingBudget(budgets[c]))
          /\ RemainingBudget(budgets[c]) = ClampedRemaining(budgets[c])
    /\ (last.op = "generate_text_report" /\ last.raised = "none") =>
          \A c \in DOMAIN last.ret.budget_status :
             LET line == last.ret.budget_status[c]
                 b == budgets[c]
             IN  /\ RLe(Zero, line.remaining)
                 /\ line.remaining
                       = Convert(rates, ClampedRemaining(b), b.currency,
                                 TargetOf(last)).value

----------------------------------------------------------------------------
(* Saving and restoring: budgets and records that overspend them, saved at *)
(* any moment and loaded back.                                             *)

InitLoad == InitWith({AbsentFile}, {"INR"})

NextLoad ==
    \/ \E b \in StatusBudgets :
          SetBudget(b.category, b.monthly_limit, b.currency, b.alert_threshold)
    \/ \E e \in StatusExpenses, f \in StatusFetchesNow :
          AddExpense(e.amount, Fuel, NoDate, e.category, e.currency, FALSE, 0, <<>>,
                     "Cash", f, TRUE)
    \/ SaveData
    \/ LoadData

SpecLoad == InitLoad /\ [][NextLoad]_vars

Loaded(o) == o.op = "load_data" /\ dataFile.exists

(* C18: load_data replays the stored expenses before it sets the stored    *)
(* budgets. So a load prints no budget alert; right after it the budgets   *)
(* are those of the snapshot, each with current_spending 0 and             *)
(* alerts_triggered False however many of the loaded records are of its    *)
(* category; and the ledger is the snapshot's records in their stored      *)
(* order with their stored categories.                                     *)
C18_LoadReplaysBeforeBudgets ==
    Loaded(last) =>
        /\ last.raised = "none"
        /\ last.alerts = <<>>
        /\ DOMAIN budgets = DOMAIN dataFile.budgets
        /\ \A c \in DOMAIN budgets :
              /\ budgets[c].current_spending = Zero
              /\ ~budgets[c].alerts_triggered
              /\ budgets[c].monthly_limit = dataFile.budgets[c].monthly_limit
              /\ budgets[c].currency = dataFile.budgets[c].currency
        /\ Len(expenses) = Len(dataFile.expenses)
        /\ \A i \in DOMAIN expenses :
              /\ expenses[i].category = dataFile.expenses[i].category
              /\ expenses[i] = dataFile.expenses[i]

(* A snapshot with a FOOD budget of 100 and two FOOD records of 80 each    *)
(* has just been loaded: FOOD stands at 0 again, not alerted.              *)
C18_Witness ==
    /\ Loaded(last)
    /\ "FOOD" \in DOMAIN budgets
    /\ budgets["FOOD"].current_spending = Zero
    /\ Cardinality({i \in DOMAIN expenses : expenses[i].category = "FOOD"}) >= 2
    /\ last.alerts = <<>>

============================================================================
